---- MODULE Spec2Model ----
(***************************************************************************)
(* DHT11 single-wire transaction engine (dht11_read), its two busy-poll    *)
(* primitives (wait_for_level, measure_pulse), the Latest-Reading Cache    *)
(* and the polling caller.  One step of the model is one source statement  *)
(* of dht11_read, or one iteration of a primitive's polling loop.          *)
(***************************************************************************)
EXTENDS Integers, Sequences, FiniteSets, TLC

VARIABLES
    pc,                  \* position of the calling task / dht11_read
    dest,                \* the `reading` argument: "reading" or "NULL"
    data,                \* uint8_t data[5]
    i,                   \* bit loop index
    elapsed,             \* `elapsed` local of the running primitive
    polls,               \* gpio_get_level calls made by the running primitive
    delays,              \* ets_delay_us(1) calls made by the running primitive
    level,               \* value returned by the last gpio_get_level
    pres,                \* return value of the last wait_for_level
    duration,            \* `duration` local of the bit loop
    reading,             \* the caller's dht11_reading_t
    current_humidity,    \* Latest-Reading Cache
    current_temperature,
    result,              \* value returned to the caller
    log,                 \* ESP_LOGE line written by the current call
    dir,                 \* GPIO direction of the line
    out,                 \* level last driven on the line
    ops,                 \* set-direction / set-level / long-delay calls of this call
    fr,                  \* frame the sensor sends in this transaction
    failStep,            \* protocol step at which the current call failed
    readingAtCall,       \* destination as it was when the call started
    cacheAtCall,         \* cache as it was when the call started
    lastOk,              \* <<humidity, temperature>> of the last ESP_OK call
    earlier,             \* <<value, step>> of an earlier timeout (history)
    task,                \* the polling task that runs: "dht11_task" or "app_main"
    waited,              \* ms slept in vTaskDelay since the task started or
                         \* the last transaction returned
    rpc,                 \* position of a task that reads the cache
    snapH,               \* humidity that task got from dht11_get_humidity
    snapT                \* temperature it got from dht11_get_temperature

vars == <<pc, dest, data, i, elapsed, polls, delays, level, pres, duration,
          reading, current_humidity, current_temperature, result, log, dir,
          out, ops, fr, failStep, readingAtCall, cacheAtCall, lastOk,
          earlier, task, waited, rpc, snapH, snapT>>

----------------------------------------------------------------------------
(* Program constants.  The esp_err_t values are those of the SDK's       *)
(* esp_err.h: ESP_OK 0, ESP_ERR_INVALID_ARG 0x102, ESP_ERR_TIMEOUT 0x107,  *)
(* ESP_ERR_INVALID_CRC 0x109.                                              *)

ESP_OK == 0
ESP_ERR_INVALID_ARG == 258
ESP_ERR_TIMEOUT == 263
ESP_ERR_INVALID_CRC == 265

PULSE_TIMEOUT_SENTINEL == -1

StepTimeoutUs == 100
BitThresholdUs == 40
NumBits == 40

StabilizeUs == 1000
StartLowUs == 20000
StartHighUs == 40

StabilizeMs == 2000
ReadIntervalMs == 3000
RecheckMs == 10

(* Bounds of the model *)

NumFrames == 3

----------------------------------------------------------------------------
(* float values: an 8-bit integer converts exactly, with no fraction *)

Float(b) == [whole |-> b, frac |-> 0]

ZeroFloat == [whole |-> 0, frac |-> 0]

(* Frames the sensor may send: valid, corrupted checksum, valid with the   *)
(* sum wrapping past 255 and non-zero fraction bytes.                      *)
FrameTable ==
    << <<50, 0, 24, 0, 74>>,
       <<50, 0, 24, 0, 75>>,
       <<200, 3, 100, 7, 54>>,
       <<255, 255, 255, 255, 252>>,
       <<0, 0, 0, 0, 0>>,
       <<1, 2, 3, 4, 11>> >>

FrameIds == 1..NumFrames

Frame(k) == FrameTable[k]

(* Values an uninitialised destination may hold *)
InitReadings ==
    { [temperature |-> ZeroFloat, humidity |-> ZeroFloat],
      [temperature |-> Float(85), humidity |-> Float(170)] }

----------------------------------------------------------------------------
(* Bit helpers *)

RECURSIVE Pow2(_)
Pow2(n) == IF n = 0 THEN 1 ELSE 2 * Pow2(n - 1)

BitOf(byte, bit_idx) == (byte \div Pow2(bit_idx)) % 2

\* byte | (1 << bit_idx) on a uint8_t
OrBit(byte, bit_idx) ==
    IF BitOf(byte, bit_idx) = 1 THEN byte ELSE (byte + Pow2(bit_idx)) % 256

ByteIdx(n) == n \div 8

\* faulty variant: least-significant bit first
BitIdxLsbFirst(n) == n % 8

BitIdx(n) == 7 - (n % 8)

\* the n-th bit (0-based, arrival order) of a frame as the sensor sends it:
\* byte after byte, each byte most-significant bit first
FrameBit(k, n) == (Frame(k)[(n \div 8) + 1] \div Pow2(7 - (n % 8))) % 2

----------------------------------------------------------------------------
(* Decisions of the code *)

\* `elapsed++ > timeout_us`, evaluated on the value before the increment
TimedOut(e, timeout_us) == e > timeout_us

\* faulty variant: the boundary duration counts as a long pulse
BitValueGE(d) == IF d >= BitThresholdUs THEN 1 ELSE 0

\* `duration > 40`
BitValue(d) == IF d > BitThresholdUs THEN 1 ELSE 0

\* faulty variant: the sum is not reduced to 8 bits
ChecksumNoWrap(d) == d[1] + d[2] + d[3] + d[4]

\* (data[0] + data[1] + data[2] + data[3]) & 0xFF
Checksum(d) == (d[1] + d[2] + d[3] + d[4]) % 256

\* faulty variant: humidity taken from the temperature byte
HumidityOfTempByte(d) == Float(d[3])

\* (float)data[0]
HumidityOf(d) == Float(d[1])

\* (float)data[2]
TemperatureOf(d) == Float(d[3])

dht11_get_humidity == current_humidity

\* faulty variant: the wrong cache field is returned
GetTemperatureWrongField == current_humidity

dht11_get_temperature == current_temperature

----------------------------------------------------------------------------
(* Log lines of dht11_read *)

LogAckLow == <<"Timeout waiting for response LOW">>
LogAckHigh == <<"Timeout waiting for response HIGH">>
LogDataStart == <<"Timeout waiting for data start">>
LogBitStart(n) == <<"Timeout waiting for bit start", n>>
LogBitPulse(n) == <<"Timeout measuring bit pulse", n>>
LogChecksum(calc, recv) == <<"Checksum error", calc, recv>>

TimeoutSteps == {"ack-low", "ack-high", "data-start", "bit-signal", "bit-pulse"}

----------------------------------------------------------------------------
(* The line as seen by gpio_get_level *)

\* Levels the line may show at a poll of wait_for_level: anything
WaitLevels == {0, 1}

\* Levels the line may show at a poll of measure_pulse: the sensor holds the
\* line high for as long as it likes, and lets it fall only at a tick that
\* encodes the bit of the frame it is sending.
PulseLevels(k, n, e) ==
    {1} \cup (IF (e > BitThresholdUs) <=> (FrameBit(k, n) = 1) THEN {0} ELSE {})

WaitPcs == {"L85", "L89", "L93", "L101"}

\* the `level` argument of each wait_for_level call
Target(p) == IF p \in {"L85", "L93"} THEN 0 ELSE 1

----------------------------------------------------------------------------
InitProgram ==
    /\ rpc = "r0"
    /\ snapH = ZeroFloat
    /\ snapT = ZeroFloat
    /\ pc = "boot"
    /\ waited = 0
    /\ dest = "reading"
    /\ data = <<0, 0, 0, 0, 0>>
    /\ i = 0
    /\ elapsed = 0
    /\ polls = 0
    /\ delays = 0
    /\ level = 1
    /\ pres = ESP_OK
    /\ duration = 0
    /\ reading \in InitReadings
    /\ current_humidity = ZeroFloat
    /\ current_temperature = ZeroFloat
    /\ result = ESP_OK
    /\ log = <<>>
    /\ dir = "INPUT"
    /\ out = 1
    /\ ops = <<>>
    /\ fr = 1
    /\ failStep = "none"
    /\ readingAtCall = reading
    /\ cacheAtCall = <<current_humidity, current_temperature>>
    /\ lastOk = <<>>

Tasks == {"dht11_task", "app_main"}

\* the history of timeouts is not recorded
Init == InitProgram /\ earlier = <<"off">> /\ task = "dht11_task"

\* the history of timeouts is recorded
InitHistory == InitProgram /\ earlier = <<>> /\ task = "dht11_task"

\* either polling task of the repository runs
InitCallers == InitProgram /\ earlier = <<"off">> /\ task \in Tasks


----------------------------------------------------------------------------
(* Variable groups *)

primVars == <<elapsed, polls, delays, level, pres>>
cacheVars == <<current_humidity, current_temperature>>
lineVars == <<dir, out, ops>>
readerVars == <<rpc, snapH, snapT>>
callVars == <<dest, fr, readingAtCall, cacheAtCall, earlier, task, waited,
              readerVars>>
outcomeVars == <<result, log, failStep>>

\* entering wait_for_level / measure_pulse: `int elapsed = 0`
EnterPrimitive(next) ==
    /\ pc' = next
    /\ elapsed' = 0
    /\ polls' = 0
    /\ delays' = 0
    /\ UNCHANGED <<level, pres>>

\* faulty variant: a timed-out step is reported as a checksum failure
FailTimeoutAsCrc(step, msg) ==
    /\ pc' = "ret"
    /\ result' = ESP_ERR_INVALID_CRC
    /\ log' = msg
    /\ failStep' = step
    /\ UNCHANGED primVars

\* ESP_LOGE(...); return ESP_ERR_TIMEOUT;
FailTimeout(step, msg) ==
    /\ pc' = "ret"
    /\ result' = ESP_ERR_TIMEOUT
    /\ log' = msg
    /\ failStep' = step
    /\ UNCHANGED primVars

----------------------------------------------------------------------------
(* The polling task calls dht11_read *)

\* ms slept by app_main before its stabilisation wait (lines 260, 267, 273)
PreludeMs(t) == IF t = "app_main" THEN 100 + 100 + 3 * 50 ELSE 0

\* faulty variant: the task starts polling without the stabilisation wait
TaskStartNoWait ==
    /\ pc = "boot"
    /\ pc' = "idle"
    /\ waited' = PreludeMs(task)
    /\ UNCHANGED <<readerVars, dest, fr, readingAtCall, cacheAtCall, earlier, task, data,
                   i, primVars, duration, reading, cacheVars, outcomeVars,
                   lineVars, lastOk>>

\* vTaskDelay(pdMS_TO_TICKS(2000)) before the polling loop
TaskStart ==
    /\ pc = "boot"
    /\ pc' = "idle"
    /\ waited' = PreludeMs(task) + StabilizeMs
    /\ UNCHANGED <<readerVars, dest, fr, readingAtCall, cacheAtCall, earlier, task, data,
                   i, primVars, duration, reading, cacheVars, outcomeVars,
                   lineVars, lastOk>>

Call(d, k) ==
    /\ pc = "idle"
    /\ pc' = "L64"
    /\ dest' = d
    /\ fr' = IF d = "NULL" THEN fr ELSE k
    /\ i' = 0
    /\ elapsed' = 0
    /\ polls' = 0
    /\ delays' = 0
    /\ pres' = ESP_OK
    /\ duration' = 0
    /\ result' = ESP_OK
    /\ log' = <<>>
    /\ failStep' = "none"
    /\ ops' = <<>>
    /\ readingAtCall' = reading
    /\ cacheAtCall' = <<current_humidity, current_temperature>>
    /\ earlier' = IF earlier # <<"off">> /\ result = ESP_ERR_TIMEOUT
                     THEN <<result, failStep>>
                     ELSE earlier
    /\ UNCHANGED <<data, level, reading, cacheVars, dir, out, lastOk, task,
                   waited, readerVars>>

\* faulty variant: the argument check comes after the line has been claimed
NullCheckLate ==
    /\ pc = "L64"
    /\ IF dest = "NULL"
         THEN /\ pc' = "ret"
              /\ result' = ESP_ERR_INVALID_ARG
              /\ failStep' = "invalid-arg"
              /\ dir' = "OUTPUT_OD"
              /\ ops' = Append(ops, <<"gpio_set_direction", "OUTPUT_OD">>)
              /\ UNCHANGED <<data, log, out>>
         ELSE /\ pc' = "L71"
              /\ data' = <<0, 0, 0, 0, 0>>
              /\ UNCHANGED <<outcomeVars, lineVars>>
    /\ UNCHANGED <<callVars, i, primVars, duration, reading, cacheVars, lastOk>>

\* if (reading == NULL) return ESP_ERR_INVALID_ARG;  uint8_t data[5] = {0};
NullCheck ==
    /\ pc = "L64"
    /\ IF dest = "NULL"
         THEN /\ pc' = "ret"
              /\ result' = ESP_ERR_INVALID_ARG
              /\ failStep' = "invalid-arg"
              /\ UNCHANGED <<data, log>>
         ELSE /\ pc' = "L71"
              /\ data' = <<0, 0, 0, 0, 0>>
              /\ UNCHANGED outcomeVars
    /\ UNCHANGED <<callVars, i, primVars, duration, reading, cacheVars,
                   lineVars, lastOk>>

----------------------------------------------------------------------------
(* Start signal *)

driveUnchanged == <<callVars, data, i, duration, reading, cacheVars,
                    outcomeVars, lastOk>>

gpio_set_direction(at, mode, next) ==
    /\ pc = at
    /\ pc' = next
    /\ dir' = mode
    /\ ops' = Append(ops, <<"gpio_set_direction", mode>>)
    /\ UNCHANGED <<out, primVars>>
    /\ UNCHANGED driveUnchanged

gpio_set_level(at, lvl, next) ==
    /\ pc = at
    /\ pc' = next
    /\ out' = lvl
    /\ ops' = Append(ops, <<"gpio_set_level", lvl>>)
    /\ UNCHANGED <<dir, primVars>>
    /\ UNCHANGED driveUnchanged

ets_delay_us(at, us, next) ==
    /\ pc = at
    /\ pc' = next
    /\ ops' = Append(ops, <<"ets_delay_us", us>>)
    /\ UNCHANGED <<dir, out, primVars>>
    /\ UNCHANGED driveUnchanged

ConfigureOutput == gpio_set_direction("L71", "OUTPUT_OD", "L72")
IdleHigh == gpio_set_level("L72", 1, "L73")
Stabilize == ets_delay_us("L73", StabilizeUs, "L76")
StartLow == gpio_set_level("L76", 0, "L77")
HoldLow == ets_delay_us("L77", StartLowUs, "L78")
ReleaseHigh == gpio_set_level("L78", 1, "L79")
HoldHigh == ets_delay_us("L79", StartHighUs, "L82")

\* faulty variant: the line is left in output mode while it is sampled
SwitchToInputForgotten ==
    /\ pc = "L82"
    /\ EnterPrimitive("L85")
    /\ UNCHANGED <<dir, out, ops>>
    /\ UNCHANGED driveUnchanged

\* gpio_set_direction(INPUT), then the call of wait_for_level at line 85
SwitchToInput ==
    /\ pc = "L82"
    /\ dir' = "INPUT"
    /\ ops' = Append(ops, <<"gpio_set_direction", "INPUT">>)
    /\ EnterPrimitive("L85")
    /\ UNCHANGED out
    /\ UNCHANGED driveUnchanged


----------------------------------------------------------------------------
(* wait_for_level: one iteration of `while (gpio_get_level(..) != level)` *)

Returned(p) ==
    CASE p = "L85" -> "L85r"
      [] p = "L89" -> "L89r"
      [] p = "L93" -> "L93r"
      [] p = "L101" -> "L101r"

waitUnchanged == <<callVars, data, i, duration, reading, cacheVars,
                   outcomeVars, lineVars, lastOk>>

wait_for_level ==
    /\ pc \in WaitPcs
    /\ \E lvl \in WaitLevels :
         /\ level' = lvl
         /\ polls' = polls + 1
         /\ IF lvl = Target(pc)
              THEN \* loop condition false: return ESP_OK
                   /\ pc' = Returned(pc)
                   /\ pres' = ESP_OK
                   /\ UNCHANGED <<elapsed, delays>>
              ELSE /\ elapsed' = elapsed + 1
                   /\ IF TimedOut(elapsed, StepTimeoutUs)
                        THEN /\ pc' = Returned(pc)
                             /\ pres' = ESP_ERR_TIMEOUT
                             /\ UNCHANGED delays
                        ELSE \* ets_delay_us(1)
                             /\ delays' = delays + 1
                             /\ UNCHANGED <<pc, pres>>
    /\ UNCHANGED waitUnchanged

(* measure_pulse: one iteration of `while (gpio_get_level(..) == level)`; *)
(* the value returned is assigned to `duration` (line 107)                *)
measure_pulse ==
    /\ pc = "L107"
    /\ \E lvl \in PulseLevels(fr, i, elapsed) :
         /\ level' = lvl
         /\ polls' = polls + 1
         /\ IF lvl # 1
              THEN \* loop condition false: return elapsed
                   /\ pc' = "L108"
                   /\ duration' = elapsed
                   /\ UNCHANGED <<elapsed, delays>>
              ELSE /\ elapsed' = elapsed + 1
                   /\ IF TimedOut(elapsed, StepTimeoutUs)
                        THEN /\ pc' = "L108"
                             /\ duration' = PULSE_TIMEOUT_SENTINEL
                             /\ UNCHANGED delays
                        ELSE \* ets_delay_us(1)
                             /\ delays' = delays + 1
                             /\ UNCHANGED <<pc, duration>>
    /\ UNCHANGED <<callVars, data, i, pres, reading, cacheVars, outcomeVars,
                   lineVars, lastOk>>

----------------------------------------------------------------------------
(* dht11_read after the start signal *)

stepUnchanged == <<callVars, data, duration, reading, cacheVars, lineVars,
                   lastOk>>

\* faulty variant: a missing acknowledgement is waited for again
AckLowCheckRetry ==
    /\ pc = "L85r"
    /\ IF pres # ESP_OK
         THEN EnterPrimitive("L85") /\ UNCHANGED outcomeVars
         ELSE EnterPrimitive("L89") /\ UNCHANGED outcomeVars
    /\ UNCHANGED <<stepUnchanged, i>>

\* if (wait_for_level(gpio_num, 0, 100) != ESP_OK) ...   (line 85)
AckLowCheck ==
    /\ pc = "L85r"
    /\ IF pres # ESP_OK
         THEN FailTimeout("ack-low", LogAckLow)
         ELSE EnterPrimitive("L89") /\ UNCHANGED outcomeVars
    /\ UNCHANGED <<stepUnchanged, i>>

\* line 89
AckHighCheck ==
    /\ pc = "L89r"
    /\ IF pres # ESP_OK
         THEN FailTimeout("ack-high", LogAckHigh)
         ELSE EnterPrimitive("L93") /\ UNCHANGED outcomeVars
    /\ UNCHANGED <<stepUnchanged, i>>

\* line 93, then `for (int i = 0; i < 40; ...)` and the call at line 101
DataStartCheck ==
    /\ pc = "L93r"
    /\ IF pres # ESP_OK
         THEN FailTimeout("data-start", LogDataStart) /\ UNCHANGED i
         ELSE /\ i' = 0
              /\ EnterPrimitive("L101")
              /\ UNCHANGED outcomeVars
    /\ UNCHANGED stepUnchanged

\* line 101, then the call of measure_pulse at line 107
BitStartCheck ==
    /\ pc = "L101r"
    /\ IF pres # ESP_OK
         THEN FailTimeout("bit-signal", LogBitStart(i))
         ELSE EnterPrimitive("L107") /\ UNCHANGED outcomeVars
    /\ UNCHANGED <<stepUnchanged, i>>

\* lines 108-118
BitDecode ==
    /\ pc = "L108"
    /\ IF duration < 0
         THEN FailTimeout("bit-pulse", LogBitPulse(i)) /\ UNCHANGED data
         ELSE /\ pc' = "L119"
              /\ data' = IF BitValue(duration) = 1
                           THEN [data EXCEPT ![ByteIdx(i) + 1] = OrBit(@, BitIdx(i))]
                           ELSE data
              /\ UNCHANGED <<outcomeVars, primVars>>
    /\ UNCHANGED <<callVars, i, duration, reading, cacheVars, lineVars, lastOk>>

\* faulty variant: the loop index starts over instead of leaving the loop
LoopNextWraps ==
    /\ pc = "L119"
    /\ i' = (i + 1) % NumBits
    /\ duration' = 0
    /\ EnterPrimitive("L101")
    /\ UNCHANGED <<callVars, data, reading, cacheVars, outcomeVars, lineVars,
                   lastOk>>

\* end of one iteration: `duration` goes out of scope, i++, i < 40
LoopNext ==
    /\ pc = "L119"
    /\ i' = i + 1
    /\ duration' = 0
    /\ IF i + 1 < NumBits
         THEN EnterPrimitive("L101")
         ELSE pc' = "L122" /\ UNCHANGED primVars
    /\ UNCHANGED <<callVars, data, reading, cacheVars, outcomeVars, lineVars,
                   lastOk>>


----------------------------------------------------------------------------
(* Checksum, result and cache *)

tailUnchanged == <<callVars, data, i, primVars, duration, lineVars>>

\* faulty variant: the destination is filled in before the checksum is compared
ChecksumCheckAfterWrite ==
    /\ pc = "L122"
    /\ reading' = [reading EXCEPT !.humidity = HumidityOf(data)]
    /\ IF Checksum(data) # data[5]
         THEN /\ pc' = "ret"
              /\ result' = ESP_ERR_INVALID_CRC
              /\ log' = LogChecksum(Checksum(data), data[5])
              /\ failStep' = "checksum"
         ELSE /\ pc' = "L129"
              /\ UNCHANGED outcomeVars
    /\ UNCHANGED <<tailUnchanged, cacheVars, lastOk>>

\* faulty variant: the cache is updated before the checksum is compared
ChecksumCheckAfterCache ==
    /\ pc = "L122"
    /\ current_humidity' = HumidityOf(data)
    /\ current_temperature' = TemperatureOf(data)
    /\ IF Checksum(data) # data[5]
         THEN /\ pc' = "ret"
              /\ result' = ESP_ERR_INVALID_CRC
              /\ log' = LogChecksum(Checksum(data), data[5])
              /\ failStep' = "checksum"
         ELSE /\ pc' = "L129"
              /\ UNCHANGED outcomeVars
    /\ UNCHANGED <<tailUnchanged, reading, lastOk>>

\* lines 122-126
ChecksumCheck ==
    /\ pc = "L122"
    /\ IF Checksum(data) # data[5]
         THEN /\ pc' = "ret"
              /\ result' = ESP_ERR_INVALID_CRC
              /\ log' = LogChecksum(Checksum(data), data[5])
              /\ failStep' = "checksum"
         ELSE /\ pc' = "L129"
              /\ UNCHANGED outcomeVars
    /\ UNCHANGED <<tailUnchanged, reading, cacheVars, lastOk>>

\* reading->humidity = (float)data[0];
WriteHumidity ==
    /\ pc = "L129"
    /\ pc' = "L130"
    /\ reading' = [reading EXCEPT !.humidity = HumidityOf(data)]
    /\ UNCHANGED <<tailUnchanged, cacheVars, outcomeVars, lastOk>>

\* reading->temperature = (float)data[2];
WriteTemperature ==
    /\ pc = "L130"
    /\ pc' = "L133"
    /\ reading' = [reading EXCEPT !.temperature = TemperatureOf(data)]
    /\ UNCHANGED <<tailUnchanged, cacheVars, outcomeVars, lastOk>>

\* faulty variant: the temperature is stored first
CacheTemperatureFirst ==
    /\ pc = "L133"
    /\ pc' = "L134"
    /\ current_temperature' = reading.temperature
    /\ UNCHANGED <<tailUnchanged, reading, current_humidity, outcomeVars,
                   lastOk>>

\* current_humidity = reading->humidity;
CacheHumidity ==
    /\ pc = "L133"
    /\ pc' = "L134"
    /\ current_humidity' = reading.humidity
    /\ UNCHANGED <<tailUnchanged, reading, current_temperature, outcomeVars,
                   lastOk>>

\* faulty variant: the temperature slot of the cache is filled from the humidity
CacheTemperatureFromHumidity ==
    /\ pc = "L134"
    /\ pc' = "L139"
    /\ current_temperature' = reading.humidity
    /\ UNCHANGED <<tailUnchanged, reading, current_humidity, outcomeVars,
                   lastOk>>

\* current_temperature = reading->temperature;
CacheTemperature ==
    /\ pc = "L134"
    /\ pc' = "L139"
    /\ current_temperature' = reading.temperature
    /\ UNCHANGED <<tailUnchanged, reading, current_humidity, outcomeVars,
                   lastOk>>

\* return ESP_OK;
ReturnOk ==
    /\ pc = "L139"
    /\ pc' = "ret"
    /\ result' = ESP_OK
    /\ lastOk' = <<HumidityOf(data), TemperatureOf(data)>>
    /\ UNCHANGED <<tailUnchanged, reading, cacheVars, log, failStep>>

\* the caller logs the outcome and sleeps until the next transaction; after
\* a failure app_main first re-checks the line (lines 325-327)
CallerHandle ==
    /\ pc = "ret"
    /\ pc' = "idle"
    /\ IF task = "app_main" /\ result # ESP_OK
         THEN /\ dir' = "INPUT"
              /\ \E lvl \in WaitLevels : level' = lvl
              /\ waited' = RecheckMs + ReadIntervalMs
         ELSE /\ waited' = ReadIntervalMs
              /\ UNCHANGED <<dir, level>>
    /\ UNCHANGED <<readerVars, dest, fr, readingAtCall, cacheAtCall, earlier, task, data,
                   i, elapsed, polls, delays, pres, duration, out, ops,
                   reading, cacheVars, outcomeVars, lastOk>>

----------------------------------------------------------------------------
Destinations == {"reading", "NULL"}

Next ==
    \/ TaskStart
    \/ \E d \in Destinations, k \in FrameIds : Call(d, k)
    \/ NullCheck
    \/ ConfigureOutput
    \/ IdleHigh
    \/ Stabilize
    \/ StartLow
    \/ HoldLow
    \/ ReleaseHigh
    \/ HoldHigh
    \/ SwitchToInput
    \/ wait_for_level
    \/ AckLowCheck
    \/ AckHighCheck
    \/ DataStartCheck
    \/ BitStartCheck
    \/ measure_pulse
    \/ BitDecode
    \/ LoopNext
    \/ ChecksumCheck
    \/ WriteHumidity
    \/ WriteTemperature
    \/ CacheHumidity
    \/ CacheTemperature
    \/ ReturnOk
    \/ CallerHandle

Spec == Init /\ [][Next]_vars

SpecHistory == InitHistory /\ [][Next]_vars

SpecCallers == InitCallers /\ [][Next]_vars

----------------------------------------------------------------------------
(* Another task reads the cache through the two accessors, one call at a   *)
(* time, while the polling task runs                                       *)

writerVars == <<pc, dest, data, i, elapsed, polls, delays, level, pres,
                duration, reading, current_humidity, current_temperature,
                result, log, dir, out, ops, fr, failStep, readingAtCall,
                cacheAtCall, lastOk, earlier, task, waited>>

ReadHumidity ==
    /\ rpc = "r0"
    /\ rpc' = "r1"
    /\ snapH' = dht11_get_humidity
    /\ UNCHANGED <<snapT, writerVars>>

ReadTemperature ==
    /\ rpc = "r1"
    /\ rpc' = "r2"
    /\ snapT' = dht11_get_temperature
    /\ UNCHANGED <<snapH, writerVars>>

\* the pair is used and the task starts over
ReaderUse ==
    /\ rpc = "r2"
    /\ rpc' = "r0"
    /\ snapH' = ZeroFloat
    /\ snapT' = ZeroFloat
    /\ UNCHANGED writerVars

NextReader ==
    \/ Next
    \/ ReadHumidity
    \/ ReadTemperature
    \/ ReaderUse

SpecReader == Init /\ [][NextReader]_vars

\* the steps of dht11_read itself: it busy-waits and never yields, so the
\* processor always executes its next statement
Transaction ==
    \/ NullCheck
    \/ ConfigureOutput
    \/ IdleHigh
    \/ Stabilize
    \/ StartLow
    \/ HoldLow
    \/ ReleaseHigh
    \/ HoldHigh
    \/ SwitchToInput
    \/ wait_for_level
    \/ AckLowCheck
    \/ AckHighCheck
    \/ DataStartCheck
    \/ BitStartCheck
    \/ measure_pulse
    \/ BitDecode
    \/ LoopNext
    \/ ChecksumCheck
    \/ WriteHumidity
    \/ WriteTemperature
    \/ CacheHumidity
    \/ CacheTemperature
    \/ ReturnOk

SpecFair == Init /\ [][Next]_vars /\ WF_vars(Transaction)


----------------------------------------------------------------------------
(* Properties *)

Cache == <<current_humidity, current_temperature>>

AllBitsInTime == pc = "ret" /\ dest = "reading" /\ failStep \notin TimeoutSteps

\* C1: a frame whose fifth byte is the sum of the first four modulo 256 and
\* whose 40 bits all arrive in time makes dht11_read return ESP_OK with
\* temperature = byte 2 and humidity = byte 0, no fraction, bytes 1 and 3
\* ignored.
C1_ValidFrameDecodes ==
    (/\ AllBitsInTime
     /\ Frame(fr)[5] = (Frame(fr)[1] + Frame(fr)[2] + Frame(fr)[3] + Frame(fr)[4]) % 256)
    => /\ result = ESP_OK
       /\ reading.temperature = [whole |-> Frame(fr)[3], frac |-> 0]
       /\ reading.humidity = [whole |-> Frame(fr)[1], frac |-> 0]

C1_Witness ==
    /\ pc = "ret"
    /\ result = ESP_OK
    /\ Frame(fr) = <<200, 3, 100, 7, 54>>
    /\ reading.humidity.whole = 200
    /\ reading.temperature.whole = 100

\* C2: with all 40 bits received in time, dht11_read returns
\* ESP_ERR_INVALID_CRC when the fifth byte differs from the sum of the first
\* four modulo 256, and it returns ESP_OK only for a frame that passes.
C2_ChecksumGate ==
    /\ AllBitsInTime =>
         IF data[5] # (data[1] + data[2] + data[3] + data[4]) % 256
           THEN result = ESP_ERR_INVALID_CRC
           ELSE result = ESP_OK
    /\ (pc = "ret" /\ result = ESP_OK) =>
         data[5] = (data[1] + data[2] + data[3] + data[4]) % 256

C2_Witness ==
    /\ pc = "ret"
    /\ i = NumBits
    /\ data = <<50, 0, 24, 0, 75>>
    /\ result = ESP_ERR_INVALID_CRC

\* C3: between calls the cache holds the values of the most recent ESP_OK
\* call, or (0, 0) if there has been none, and a call that fails leaves the
\* cache as it was when the call started.
C3_CacheIsLastSuccess ==
    /\ pc \in {"idle", "ret"} =>
         Cache = IF lastOk = <<>> THEN <<ZeroFloat, ZeroFloat>> ELSE lastOk
    /\ (pc = "ret" /\ result # ESP_OK) => Cache = cacheAtCall

C3_Witness ==
    /\ pc = "ret"
    /\ result = ESP_ERR_INVALID_CRC
    /\ lastOk = <<Float(200), Float(100)>>
    /\ Cache = lastOk

\* C4: the destination is written only by a transaction that returns
\* ESP_OK: outside the final writes of a succeeding call it is what it was
\* when the call started, in particular after every failure.
C4_NoPartialWrite ==
    (/\ pc \notin {"L130", "L133", "L134", "L139"}
     /\ ~(pc \in {"ret", "idle"} /\ result = ESP_OK))
    => reading = readingAtCall

C4_Witness ==
    /\ pc = "ret"
    /\ failStep = "checksum"
    /\ reading = readingAtCall
    /\ reading.humidity = Float(170)

\* C5: a call with a NULL destination returns ESP_ERR_INVALID_ARG and does
\* nothing to the line (no set-direction, set-level, get-level or delay) nor
\* to the cache.
C5_NullRejected ==
    dest = "NULL" =>
      /\ pc \in {"L64", "ret", "idle"}
      /\ ops = <<>>
      /\ polls = 0
      /\ delays = 0
      /\ Cache = cacheAtCall
      /\ pc \in {"ret", "idle"} => result = ESP_ERR_INVALID_ARG

C5_Witness ==
    /\ pc = "ret"
    /\ dest = "NULL"
    /\ result = ESP_ERR_INVALID_ARG
    /\ lastOk # <<>>

\* C6: once a call has returned ESP_OK the two accessors return the fields
\* of the destination, and go on doing so through later failed calls, until
\* the writes of the next successful call.
C6_AccessorsAgree ==
    (lastOk # <<>> /\ pc \notin {"L130", "L133", "L134"})
    => /\ dht11_get_humidity = reading.humidity
       /\ dht11_get_temperature = reading.temperature

C6_Witness ==
    /\ pc = "ret"
    /\ result = ESP_OK
    /\ dht11_get_humidity = Float(50)
    /\ dht11_get_temperature = Float(24)
    /\ cacheAtCall = <<Float(200), Float(100)>>

StepLog(step, n) ==
    CASE step = "ack-low" -> LogAckLow
      [] step = "ack-high" -> LogAckHigh
      [] step = "data-start" -> LogDataStart
      [] step = "bit-signal" -> LogBitStart(n)
      [] step = "bit-pulse" -> LogBitPulse(n)

WaitReturnedPcs == {"L85r", "L89r", "L93r", "L101r"}

\* C8 as stated: wait_for_level returns ESP_OK at the first poll that sees
\* the target level, with no further poll or delay; it times out once more
\* than T polls have seen a mismatch; and a level that first appears after
\* more than T one-microsecond ticks is not reported as success.
C8_WaitBudget ==
    pc \in WaitReturnedPcs =>
      /\ pres = ESP_OK =>
           /\ level = Target(CHOOSE p \in WaitPcs : Returned(p) = pc)
           /\ polls = delays + 1
           /\ delays <= StepTimeoutUs
      /\ pres = ESP_ERR_TIMEOUT => polls >= StepTimeoutUs + 1

\* C9 as stated: measure_pulse returns the number of polls that saw the level
\* held, or -1, and a non-negative return value is at most T.
C9_PulseBudget ==
    pc = "L108" =>
      /\ duration >= 0 => (duration = polls - 1 /\ duration <= StepTimeoutUs)
      /\ duration < 0 => duration = -1

\* C10: the bit stored for a measured duration is 1 if and only if the
\* duration is greater than 40; 40 gives 0, 41 gives 1, 0 gives 0.
C10_BitPolicy ==
    pc = "L119" =>
      BitOf(data[ByteIdx(i) + 1], BitIdx(i)) = (IF duration > 40 THEN 1 ELSE 0)

C10_Witness ==
    /\ pc = "L119"
    /\ duration = 40
    /\ i = 39
    /\ BitOf(data[5], 0) = 0


\* the bits received so far in the running transaction
BitsReceived ==
    CASE pc \in {"boot", "idle", "L64", "L71", "L72", "L73", "L76", "L77", "L78", "L79", "L82",
                 "L85", "L85r", "L89", "L89r", "L93", "L93r"} -> 0
      [] pc = "L119" -> i + 1
      [] OTHER -> i

\* value of byte b (0-based) made of the first n bits sent, most significant
\* bit first, the bits not yet received being 0
RECURSIVE PackedByte(_, _, _, _)
PackedByte(k, b, n, m) ==
    IF m = 8 THEN 0
    ELSE (IF 8 * b + m < n THEN FrameBit(k, 8 * b + m) * Pow2(7 - m) ELSE 0)
         + PackedByte(k, b, n, m + 1)

\* C11: bit n of a transaction lands in byte n/8 at position 7 - n%8, so the
\* frame always holds the bits received so far packed most-significant-bit
\* first over zeros; it is all zeros once line 68 has run, whatever an
\* earlier transaction left, and equals the 5 bytes sent after 40 bits.
C11_BitPacking ==
    (pc \notin {"boot", "idle", "L64", "ret"} /\ dest = "reading") =>
      /\ \A b \in 0..4 : data[b + 1] = PackedByte(fr, b, BitsReceived, 0)
      /\ BitsReceived = NumBits => data = Frame(fr)

C11_Witness ==
    /\ pc = "L122"
    /\ data = <<200, 3, 100, 7, 54>>
    /\ lastOk = <<Float(50), Float(24)>>


\* a primitive has just reported a timeout to dht11_read
StepTimedOut ==
    \/ pc \in WaitReturnedPcs /\ pres = ESP_ERR_TIMEOUT
    \/ pc = "L108" /\ duration < 0

\* the position that follows p in the protocol when p does not time out
FollowingStep(p, n) ==
    CASE p = "L85" -> {"L85r"}
      [] p = "L85r" -> {"L89"}
      [] p = "L89" -> {"L89r"}
      [] p = "L89r" -> {"L93"}
      [] p = "L93" -> {"L93r"}
      [] p = "L93r" -> {"L101"}
      [] p = "L101" -> {"L101r"}
      [] p = "L101r" -> {"L107"}
      [] p = "L107" -> {"L108"}
      [] p = "L108" -> {"L119"}
      [] p = "L119" -> IF n + 1 < 40 THEN {"L101"} ELSE {"L122"}
      [] p = "L122" -> {"L129", "ret"}

ProtocolPcs == {"L85", "L85r", "L89", "L89r", "L93", "L93r", "L101", "L101r",
                "L107", "L108", "L119", "L122"}

StartSignalsSent(o) ==
    Cardinality({j \in DOMAIN o : o[j] = <<"gpio_set_level", 0>>})

\* C12: the steps run in the order ack-low, ack-high, data-start, then per
\* bit signal wait and pulse measure, then checksum; a step that times out
\* makes the call return ESP_ERR_TIMEOUT at once, with no further sample of
\* the line and no later step; the start signal is sent once per call; a
\* missing ack-low gives a timeout with no bit read.
C12_AbortAtFirstFailure ==
    [][ /\ StepTimedOut =>
             /\ pc' = "ret"
             /\ result' = ESP_ERR_TIMEOUT
             /\ polls' = polls
             /\ delays' = delays
             /\ ops' = ops
             /\ data' = data
             /\ i' = i
        /\ (pc \in ProtocolPcs /\ pc' # pc /\ ~StepTimedOut) =>
             /\ pc' \in FollowingStep(pc, i)
             /\ pc = "L93r" => i' = 0
             /\ pc = "L119" => i' = i + 1
        /\ (pc' = "ret" /\ dest' = "reading") => StartSignalsSent(ops') = 1
        /\ (pc' = "ret" /\ failStep' = "ack-low") =>
             /\ i' = 0
             /\ data' = <<0, 0, 0, 0, 0>>
             /\ result' = ESP_ERR_TIMEOUT
      ]_vars

C12_Witness ==
    /\ pc = "ret"
    /\ failStep = "ack-low"
    /\ result = ESP_ERR_TIMEOUT
    /\ polls = StepTimeoutUs + 2
    /\ StartSignalsSent(ops) = 1
    /\ i = 0
    /\ lastOk # <<>>


StartSequence ==
    << <<"gpio_set_direction", "OUTPUT_OD">>,
       <<"gpio_set_level", 1>>,
       <<"ets_delay_us", 1000>>,
       <<"gpio_set_level", 0>>,
       <<"ets_delay_us", 20000>>,
       <<"gpio_set_level", 1>>,
       <<"ets_delay_us", 40>>,
       <<"gpio_set_direction", "INPUT">> >>

\* number of line operations done when the call stands at p
DrivePos(p) ==
    CASE p = "L71" -> 0
      [] p = "L72" -> 1
      [] p = "L73" -> 2
      [] p = "L76" -> 3
      [] p = "L77" -> 4
      [] p = "L78" -> 5
      [] p = "L79" -> 6
      [] p = "L82" -> 7

DrivePcs == {"L71", "L72", "L73", "L76", "L77", "L78", "L79", "L82"}

\* C13: a call with a destination sets the line to open-drain output, drives
\* it high for 1000 ticks, low for 20000, high for 40 and switches to input,
\* in this order and before the first sample; from then on, up to and
\* including every return, it does nothing more to the line, which stays in
\* input mode.
C13_LineDriveOrder ==
    (dest = "reading" /\ pc \notin {"boot", "idle", "L64"}) =>
      IF pc \in DrivePcs
        THEN /\ ops = SubSeq(StartSequence, 1, DrivePos(pc))
             /\ polls = 0
             /\ delays = 0
             /\ DrivePos(pc) >= 1 => dir = "OUTPUT_OD"
             /\ DrivePos(pc) >= 2 =>
                  out = (IF DrivePos(pc) \in {4, 5} THEN 0 ELSE 1)
        ELSE /\ ops = StartSequence
             /\ dir = "INPUT"
             /\ out = 1

C13_Witness ==
    /\ pc = "ret"
    /\ failStep = "bit-signal"
    /\ i = 17
    /\ dir = "INPUT"
    /\ ops = StartSequence


PrimitivePcs == {"L85", "L89", "L93", "L101", "L107"}

\* C14: whatever the line does, every call returns, with one of the four
\* values; a primitive with budget 100 makes at most 102 polls, and the bit
\* loop runs at most 40 times.
C14_Termination ==
    /\ [](/\ polls <= StepTimeoutUs + 2
          /\ elapsed <= StepTimeoutUs + 2
          /\ i <= NumBits
          /\ pc \in PrimitivePcs => elapsed <= StepTimeoutUs + 1
          /\ pc \in {"L101", "L101r", "L107", "L108", "L119"} => i < NumBits
          /\ pc = "ret" => result \in {ESP_OK, ESP_ERR_TIMEOUT,
                                       ESP_ERR_INVALID_CRC, ESP_ERR_INVALID_ARG})
    /\ (pc = "L64") ~> (pc = "ret")

C14_Witness ==
    /\ pc = "ret"
    /\ result = ESP_ERR_TIMEOUT
    /\ failStep = "bit-pulse"
    /\ i = NumBits - 1
    /\ polls = StepTimeoutUs + 2


\* C15: a polling task starts its first transaction only after the 2000 ms
\* stabilisation wait, sleeps 3000 ms after every transaction whatever its
\* outcome, so that a transaction never starts less than 2000 ms after the
\* previous one, and a failed transaction is followed by a fresh one.
C15_PollingCadence ==
    [][ /\ pc = "boot" => (pc' = "idle" /\ waited' >= 2000)
        /\ pc = "ret" => (pc' = "idle" /\ waited' >= 3000)
        /\ pc' = "L64" => (pc = "idle" /\ waited >= 2000 /\ waited' = waited)
        /\ pc = "idle" => ENABLED Call("reading", 1)
        /\ pc = "ret" => ENABLED CallerHandle
      ]_vars

C15_Witness ==
    /\ pc = "L64"
    /\ task = "app_main"
    /\ result = ESP_OK
    /\ waited = 3010
    /\ dest = "reading"
    /\ lastOk # <<>>


ValidFrameIds ==
    {k \in FrameIds :
       Frame(k)[5] = (Frame(k)[1] + Frame(k)[2] + Frame(k)[3] + Frame(k)[4]) % 256}

\* C16: the accessors are two separate steps that nothing holds back while
\* the cache is being updated, and each returns a value of the initial cache
\* or of a successful reading; the pair they give can be the humidity of one
\* reading with the temperature of another (the witness).
C16_NoJointSnapshot ==
    /\ rpc = "r0" => ENABLED ReadHumidity
    /\ rpc = "r1" => ENABLED ReadTemperature
    /\ rpc \in {"r1", "r2"} =>
         snapH \in {ZeroFloat} \cup
                   {[whole |-> Frame(k)[1], frac |-> 0] : k \in ValidFrameIds}
    /\ rpc = "r2" =>
         snapT \in {ZeroFloat} \cup
                   {[whole |-> Frame(k)[3], frac |-> 0] : k \in ValidFrameIds}

\* a torn pair: humidity of the newer reading, temperature of the older one,
\* read between the two cache writes of one call
C16_TornWitness ==
    /\ rpc = "r2"
    /\ pc = "L134"
    /\ lastOk = <<Float(200), Float(100)>>
    /\ reading = [temperature |-> Float(24), humidity |-> Float(50)]
    /\ snapH = Float(50)
    /\ snapT = Float(100)


\* the pair of the latest reading that succeeded, (0, 0) standing for the
\* reading before the first
OlderPair == IF lastOk = <<>> THEN <<ZeroFloat, ZeroFloat>> ELSE lastOk

\* the pair of the reading the call in progress has received
NewerPair == <<HumidityOf(data), TemperatureOf(data)>>

\* C17: the cache is the pair of one successful reading, except between the
\* two cache writes of a succeeding call, where it is the humidity of the new
\* reading with the temperature of the one before and the destination
\* already holds both new fields; the new temperature is never in the cache
\* beside the old humidity.
C17_CacheWriteOrder ==
    /\ pc \notin {"L134", "L139"} => Cache = OlderPair
    /\ pc = "L134" =>
         /\ Cache = <<NewerPair[1], OlderPair[2]>>
         /\ reading = [temperature |-> NewerPair[2], humidity |-> NewerPair[1]]
    /\ pc = "L139" => Cache = NewerPair
    /\ (Cache[1] = OlderPair[1] /\ Cache[2] = NewerPair[2]) =>
         Cache \in {OlderPair, NewerPair, <<NewerPair[1], OlderPair[2]>>}

C17_Witness ==
    /\ pc = "L134"
    /\ lastOk = <<Float(200), Float(100)>>
    /\ data = <<50, 0, 24, 0, 74>>
    /\ Cache = <<Float(50), Float(100)>>

====
